---------------------------- MODULE Spec2Model ----------------------------
(***************************************************************************)
(* Scanline polygon fill of gliff-ai/slpf (src/src/index.ts): the Edge     *)
(* Table (ET), the Active Edge Table (AET), the scanline loop and the two  *)
(* exported entry points slpfPoints and slpfFilledArray.                   *)
(*                                                                         *)
(* Coordinates.  x-values are integers.  y-values are JavaScript numbers;  *)
(* the model stores a y as the integer y * YDen, so that a vertex may lie  *)
(* off the unit grid by a binary fraction (exactly representable as a      *)
(* double).  The scanline advances by one unit, that is by YDen.  lerp is  *)
(* invariant under this scaling of y, and for the coordinates in the       *)
(* bounds the double-precision value of its expression has the same floor  *)
(* as the exact rational value.                                            *)
(***************************************************************************)
EXTENDS Integers, Sequences, FiniteSets

\* ------------------------------------------------------------- bounds
\* largest x of a triangle vertex
MaxX == 3
\* largest y (in units) of a triangle vertex
MaxY == 2
\* largest coordinate of a rectangle corner
MaxRect == 5
\* width and height of the bitmap handed to slpfFilledArray with a rectangle
BufSize == 10
\* binary digits of the fractional part of a y-value
FracBits == 1
\* longest AET handed to removeEdges on its own
MaxAET == 4
\* calls the caller makes with the same input
MaxCalls == 2

\* points.length < 3: need three points to do a fill
MinPoints == 3

YDen == 2 ^ FracBits
\* scanline iterations the model follows before it stops looking
MaxIter == (IF MaxY > MaxRect THEN MaxY ELSE MaxRect) + 3

\* ------------------------------------------------------------- values
Point(x, y) == [x |-> x, y |-> y]
Edge(point1, point2) == [point1 |-> point1, point2 |-> point2]

\* Math.floor of 0/0 * dx + x, of +-(n/0) * dx + x: not numbers of the grid
NaN == -1000000
PosInf == 1000000
NegInf == -2000000
IsFinite(v) == v # NaN /\ v # PosInf /\ v # NegInf

\* the value of a call that returns nothing, and of one that returns an array
Undefined == [type |-> "undefined", value |-> <<>>]
ArrayOf(s) == [type |-> "array", value |-> s]

\* floor of a / b for b # 0
FloorDiv(a, b) == IF b > 0 THEN a \div b ELSE (0 - a) \div (0 - b)

\* ------------------------------------------------------------- helpers
\* data[(width * y + x) * 4 + k] = 255 for k = 0..3; a typed array ignores a
\* store at an index that is not an integer of its range.  data is 1-based here.
setPixelWhite(data, width, x, y) ==
  LET num == (width * y + x * YDen) * 4
      idx == num \div YDen
  IN IF num % YDen # 0
       THEN data
       ELSE [i \in 1..Len(data) |->
               IF i - 1 \in idx..(idx + 3) THEN 255 ELSE data[i]]

\* interpolation from point2's x towards point1's: the endpoints' x swapped
lerpOverSwapped(den, yScan, edge) ==
  LET point1 == edge.point1
      point2 == edge.point2
      dy == point2.y - point1.y
      dx == point1.x - point2.x
      num == yScan - point1.y
  IN IF dy # 0 THEN FloorDiv(num * dx + point2.x * dy, dy * den)
     ELSE NaN

\* lerp for endpoints whose x is stored as x * den: the Math.floor, in units
lerpOver(den, yScan, edge) ==
  LET point1 == edge.point1
      point2 == edge.point2
      dy == point2.y - point1.y
      dx == point2.x - point1.x
      num == yScan - point1.y
  IN IF dy # 0 THEN FloorDiv(num * dx + point1.x * dy, dy * den)
     ELSE IF num = 0 \/ dx = 0 THEN NaN
     ELSE IF (num > 0) = (dx > 0) THEN PosInf
     ELSE NegInf

\* lerp for the integer x-values of the polygons
lerp(yScan, edge) == lerpOver(1, yScan, edge)

getYMin(edge) ==
  IF edge.point1.y <= edge.point2.y THEN edge.point1.y ELSE edge.point2.y

getYMax(edge) ==
  IF edge.point1.y > edge.point2.y THEN edge.point1.y ELSE edge.point2.y

getXofYMin(edge) ==
  IF edge.point1.y <= edge.point2.y THEN edge.point1.x ELSE edge.point2.x

getXofYMax(edge) ==
  IF edge.point1.y > edge.point2.y THEN edge.point1.x ELSE edge.point2.x

\* the loop of pointsToEdges from index i (1-based) on
RECURSIVE pointsToEdgesLoop(_, _, _, _)
pointsToEdgesLoop(pts, i, point1, edges) ==
  IF i > Len(pts) THEN edges
  ELSE LET point2 == pts[i]
       IN pointsToEdgesLoop(pts, i + 1, point2,
            IF point1.x # point2.x THEN Append(edges, Edge(point1, point2))
            ELSE edges)

\* the walk started at the first point: the pair last -> first is not formed
pointsToEdgesNoWrap(pts) == pointsToEdgesLoop(pts, 2, pts[1], <<>>)

pointsToEdges(pts) == pointsToEdgesLoop(pts, 1, pts[Len(pts)], <<>>)

\* the operands the other way round: ascending minimum y
cmpETAscending(e1, e2) == getYMin(e1) - getYMin(e2)

\* (e1, e2) => getYMin(e2) - getYMin(e1)
cmpET(e1, e2) == getYMin(e2) - getYMin(e1)

\* (e1, e2) => cmp === 0 ? getXofYMax(e1) - getXofYMax(e2) : cmp
cmpAET(e1, e2) ==
  LET cmp == getXofYMin(e1) - getXofYMin(e2)
  IN IF cmp = 0 THEN getXofYMax(e1) - getXofYMax(e2) ELSE cmp

\* Array.prototype.sort is stable: an element goes after the elements that do
\* not compare greater than it.
insertET(sorted, e) ==
  LET k == Cardinality({i \in 1..Len(sorted) : cmpET(sorted[i], e) <= 0})
  IN SubSeq(sorted, 1, k) \o <<e>> \o SubSeq(sorted, k + 1, Len(sorted))

RECURSIVE sortETLoop(_, _)
sortETLoop(edges, sorted) ==
  IF edges = <<>> THEN sorted
  ELSE sortETLoop(Tail(edges), insertET(sorted, Head(edges)))

sortET(edges) == sortETLoop(edges, <<>>)

insertAET(sorted, e) ==
  LET k == Cardinality({i \in 1..Len(sorted) : cmpAET(sorted[i], e) <= 0})
  IN SubSeq(sorted, 1, k) \o <<e>> \o SubSeq(sorted, k + 1, Len(sorted))

RECURSIVE sortAETLoop(_, _)
sortAETLoop(edges, sorted) ==
  IF edges = <<>> THEN sorted
  ELSE sortAETLoop(Tail(edges), insertAET(sorted, Head(edges)))

sortAET(edges) == sortAETLoop(edges, <<>>)

\* the tail of the ET read and pushed, but not popped
moveEdgesKeep(y, et, aet) ==
  IF Len(et) > 0 /\ y = getYMin(et[Len(et)])
    THEN [ET |-> et, AET |-> Append(aet, et[Len(et)])]
    ELSE [ET |-> et, AET |-> aet]

\* while (ET.length > 0 && yScan === getYMin(ET[ET.length - 1])) AET.push(ET.pop())
RECURSIVE moveEdges(_, _, _)
moveEdges(y, et, aet) ==
  IF Len(et) > 0 /\ y = getYMin(et[Len(et)])
    THEN moveEdges(y, SubSeq(et, 1, Len(et) - 1), Append(aet, et[Len(et)]))
    ELSE [ET |-> et, AET |-> aet]

\* the loop without i--: the edge swapped into place i is not looked at
RECURSIVE removeEdgesLoopSkip(_, _, _)
removeEdgesLoopSkip(y, aet, i) ==
  IF i > Len(aet) THEN aet
  ELSE IF y >= getYMax(aet[i])
    THEN LET last == aet[Len(aet)]
             popped == SubSeq(aet, 1, Len(aet) - 1)
         IN IF i <= Len(popped)
              THEN removeEdgesLoopSkip(y, [popped EXCEPT ![i] = last], i + 1)
              ELSE removeEdgesLoopSkip(y, popped, i + 1)
    ELSE removeEdgesLoopSkip(y, aet, i + 1)

\* the loop of removeEdges from index i (1-based) on
RECURSIVE removeEdgesLoop(_, _, _)
removeEdgesLoop(y, aet, i) ==
  IF i > Len(aet) THEN aet
  ELSE IF y >= getYMax(aet[i])
    THEN LET last == aet[Len(aet)]
             popped == SubSeq(aet, 1, Len(aet) - 1)
         IN IF i <= Len(popped)
              THEN removeEdgesLoop(y, [popped EXCEPT ![i] = last], i)
              ELSE removeEdgesLoop(y, popped, i + 1)
    ELSE removeEdgesLoop(y, aet, i + 1)

\* yScan > getYMax: an edge stays on the scanline of its maximum y
RECURSIVE removeEdgesStrictLoop(_, _, _)
removeEdgesStrictLoop(y, aet, i) ==
  IF i > Len(aet) THEN aet
  ELSE IF y > getYMax(aet[i])
    THEN LET last == aet[Len(aet)]
             popped == SubSeq(aet, 1, Len(aet) - 1)
         IN IF i <= Len(popped)
              THEN removeEdgesStrictLoop(y, [popped EXCEPT ![i] = last], i)
              ELSE removeEdgesStrictLoop(y, popped, i + 1)
    ELSE removeEdgesStrictLoop(y, aet, i + 1)

removeEdgesStrict(y, aet) == removeEdgesStrictLoop(y, aet, 1)

removeEdges(y, aet) == removeEdgesLoop(y, aet, 1)

getSpans(y, aet) == [i \in 1..Len(aet) |-> Point(lerp(y, aet[i]), y)]

\* for (let { x } = point1; x < point2.x; x++): the x-values visited
spanXs(x1, x2) ==
  IF x1 = NaN \/ x2 = NaN \/ x1 = PosInf \/ x2 = NegInf THEN <<>>
  ELSE IF x1 >= x2 THEN <<>>
  ELSE [i \in 1..(x2 - x1) |-> x1 + i - 1]

\* the loop never ends: x stays -Infinity, or never reaches +Infinity
spanDiverges(x1, x2) ==
  /\ x1 # NaN /\ x2 # NaN
  /\ \/ x1 = NegInf /\ x2 # NegInf
     \/ x2 = PosInf /\ x1 # PosInf

collectSpanInclusive(edge, y) ==
  LET xs == spanXs(edge.point1.x, edge.point2.x + 1)
  IN [i \in 1..Len(xs) |-> Point(xs[i], y)]

collectSpan(edge, y) ==
  LET xs == spanXs(edge.point1.x, edge.point2.x)
  IN [i \in 1..Len(xs) |-> Point(xs[i], y)]

RECURSIVE Flatten(_)
Flatten(ss) == IF ss = <<>> THEN <<>> ELSE Head(ss) \o Flatten(Tail(ss))

\* the pairs (spans[i], spans[i + 1]) for i = 0, 2, ...; the last one of an odd
\* list has no point2
NPairs(sp) == (Len(sp) + 1) \div 2
HasPoint2(sp, k) == 2 * k <= Len(sp)

\* the first pair whose point2 is missing (point2.x throws a TypeError) or whose
\* loop never ends; 0 when every pair completes
FirstBadPair(sp) ==
  LET bad == {k \in 1..NPairs(sp) :
                \/ ~HasPoint2(sp, k)
                \/ spanDiverges(sp[2 * k - 1].x, sp[2 * k].x)}
  IN IF bad = {} THEN 0 ELSE CHOOSE k \in bad : \A j \in bad : k <= j

gatherSpans(sp, y) ==
  Flatten([k \in 1..NPairs(sp) |-> collectSpan(Edge(sp[2 * k - 1], sp[2 * k]), y)])

\* fillSpan with x <= point2.x
drawnPointsInclusive(sp, y, n) ==
  Flatten([k \in 1..n |-> collectSpanInclusive(Edge(sp[2 * k - 1], sp[2 * k]), y)])

\* the setPixelAt calls of drawSpans, in order, over the first n pairs
drawnPoints(sp, y, n) ==
  Flatten([k \in 1..n |-> collectSpan(Edge(sp[2 * k - 1], sp[2 * k]), y)])

RECURSIVE paint(_, _, _)
paint(data, width, pts) ==
  IF pts = <<>> THEN data
  ELSE paint(setPixelWhite(data, width, Head(pts).x, Head(pts).y), width, Tail(pts))

\* new Uint8ClampedArray(width * height * 4)
newImage(bitmap) == [i \in 1..(bitmap.width * bitmap.height * 4) |-> 0]


\* ------------------------------------------------------------- inputs
TriGrid == {Point(x, y * YDen) : x \in 0..MaxX, y \in 0..MaxY}

\* fewer points than a fill needs
ShortInputs == UNION {[1..n -> TriGrid] : n \in 0..(MinPoints - 1)}

\* the smallest polygons, vertices on the unit grid
Triangles == [1..MinPoints -> TriGrid]

\* a triangle whose last vertex lies a fraction of a unit off the grid
FracTriangles == {[t EXCEPT ![MinPoints].y = @ + 1] : t \in Triangles}

\* axis-aligned rectangles with integer corners
Rectangle(x0, y0, x1, y1) ==
  <<Point(x0, y0 * YDen), Point(x1, y0 * YDen),
    Point(x1, y1 * YDen), Point(x0, y1 * YDen)>>

RectCorners ==
  {c \in (0..MaxRect) \X (0..MaxRect) \X (0..MaxRect) \X (0..MaxRect) :
     c[1] < c[3] /\ c[2] < c[4]}

Rectangles == {Rectangle(c[1], c[2], c[3], c[4]) : c \in RectCorners}

Bitmap(w, h) == [width |-> w, height |-> h]

Inputs ==
  {[points |-> p, imageBitmap |-> Bitmap(MaxX + 1, MaxY + 1)] :
     p \in ShortInputs \cup Triangles \cup FracTriangles}
  \cup {[points |-> p, imageBitmap |-> Bitmap(BufSize, BufSize)] : p \in Rectangles}

\* ------------------------------------------------------------- state
VARIABLES
  points,        \* the caller's array of points
  imageBitmap,   \* the caller's bitmap (slpfFilledArray reads its width and height)
  mode,          \* which export the caller calls: "points" | "filled"
  pc,            \* "idle" | "move" | "remove" | "sort" | "fill" | "done" | "error" | "hang"
  ET, AET,       \* the call's Edge Table and Active Edge Table
  yScan,         \* the scanline (times YDen)
  spans,         \* the last value of getSpans
  gatheredSpans, \* slpfPoints: one array of points per scanline
  img,           \* slpfFilledArray: the Uint8ClampedArray it allocates
  writes,        \* the (x, y) of the setPixelAt calls of the current call
  ret,           \* what the last call returned or threw
  iter,          \* scanline iterations of the current call
  results        \* what the caller got from the calls made so far

vars == <<points, imageBitmap, mode, pc, ET, AET, yScan, spans, gatheredSpans,
          img, writes, ret, iter, results>>

TypeError == [type |-> "TypeError", value |-> <<>>]

Init ==
  /\ \E inp \in Inputs : points = inp.points /\ imageBitmap = inp.imageBitmap
  /\ mode \in {"points", "filled"}
  /\ pc = "idle"
  /\ ET = <<>> /\ AET = <<>>
  /\ yScan = 0
  /\ spans = <<>>
  /\ gatheredSpans = <<>>
  /\ img = <<>>
  /\ writes = <<>>
  /\ ret = Undefined
  /\ iter = 0
  /\ results = <<>>


\* ------------------------------------------------------------- actions
\* const AET: Edge[] = []
newAET == <<>>

\* an array that outlives the call instead of one made by it
staleGatheredSpans == gatheredSpans

\* const gatheredSpans: XYPoint[][] = []
newGatheredSpans == <<>>

\* while (ET.length > 0 || AET.length > 0)
loopContinues(et, aet) == Len(et) > 0 \/ Len(aet) > 0

tooFewPointsOff(pts) == Len(pts) < MinPoints - 1

\* if (points.length < 3) return
tooFewPoints(pts) == Len(pts) < MinPoints

\* the caller calls slpfPoints(points): lines 149-157, up to the loop
slpfPoints ==
  /\ pc = "idle" /\ mode = "points" /\ Len(results) < MaxCalls
  /\ iter' = 0
  /\ IF tooFewPoints(points)
       THEN /\ pc' = "done"
            /\ ret' = ArrayOf(<<>>)
            /\ UNCHANGED <<ET, AET, yScan, gatheredSpans>>
       ELSE LET et == sortET(pointsToEdges(points))
            IN /\ ET' = et
               /\ AET' = newAET
               /\ IF et = <<>>
                    \* getYMin(undefined): cannot read point1 of undefined
                    THEN /\ pc' = "error"
                         /\ ret' = TypeError
                         /\ UNCHANGED <<yScan, gatheredSpans>>
                    ELSE /\ yScan' = getYMin(et[Len(et)])
                         /\ gatheredSpans' = newGatheredSpans
                         /\ pc' = "move"
                         /\ UNCHANGED ret
  /\ UNCHANGED <<points, imageBitmap, mode, spans, img, writes, results>>

\* the caller calls slpfFilledArray(points, imageBitmap): lines 182-192
slpfFilledArray ==
  /\ pc = "idle" /\ mode = "filled" /\ Len(results) < MaxCalls
  /\ iter' = 0
  /\ IF tooFewPoints(points)
       THEN /\ pc' = "done"
            /\ ret' = Undefined
            /\ UNCHANGED <<ET, AET, yScan, img, writes>>
       ELSE LET et == sortET(pointsToEdges(points))
            IN /\ img' = newImage(imageBitmap)
               /\ writes' = <<>>
               /\ ET' = et
               /\ AET' = newAET
               /\ IF et = <<>>
                    THEN /\ pc' = "error"
                         /\ ret' = TypeError
                         /\ UNCHANGED yScan
                    ELSE /\ yScan' = getYMin(et[Len(et)])
                         /\ pc' = "move"
                         /\ UNCHANGED ret
  /\ UNCHANGED <<points, imageBitmap, mode, spans, gatheredSpans, results>>

\* moveEdges(yScan, ET, AET), first statement of the loop body
MoveEdges ==
  /\ pc = "move" /\ iter < MaxIter
  /\ LET moved == moveEdges(yScan, ET, AET)
     IN ET' = moved.ET /\ AET' = moved.AET
  /\ iter' = iter + 1
  /\ pc' = "remove"
  /\ UNCHANGED <<points, imageBitmap, mode, yScan, spans, gatheredSpans, img,
                 writes, ret, results>>

\* removeEdges(yScan, AET)
RemoveEdges ==
  /\ pc = "remove"
  /\ AET' = removeEdges(yScan, AET)
  /\ pc' = "sort"
  /\ UNCHANGED <<points, imageBitmap, mode, ET, yScan, spans, gatheredSpans, img,
                 writes, ret, iter, results>>

\* AET.sort(...)
SortAET ==
  /\ pc = "sort"
  /\ AET' = sortAET(AET)
  /\ pc' = "fill"
  /\ UNCHANGED <<points, imageBitmap, mode, ET, yScan, spans, gatheredSpans, img,
                 writes, ret, iter, results>>

\* slpfPoints: getSpans, gatherSpans, yScan++, the loop test and the return
GatherSpans ==
  /\ pc = "fill" /\ mode = "points"
  /\ LET sp == getSpans(yScan, AET)
         bad == FirstBadPair(sp)
     IN /\ spans' = sp
        /\ IF bad # 0
             THEN /\ IF HasPoint2(sp, bad)
                       THEN pc' = "hang" /\ UNCHANGED ret
                       ELSE pc' = "error" /\ ret' = TypeError
                  /\ UNCHANGED <<gatheredSpans, yScan>>
             ELSE LET gathered == Append(gatheredSpans, gatherSpans(sp, yScan))
                  IN /\ gatheredSpans' = gathered
                     /\ yScan' = yScan + YDen
                     /\ IF loopContinues(ET, AET)
                          THEN pc' = "move" /\ UNCHANGED ret
                          ELSE pc' = "done" /\ ret' = ArrayOf(Flatten(gathered))
  /\ UNCHANGED <<points, imageBitmap, mode, ET, AET, img, writes, iter, results>>

\* slpfFilledArray: getSpans, drawSpans, yScan++, the loop test and the end of
\* the function, which returns nothing
DrawSpans ==
  /\ pc = "fill" /\ mode = "filled"
  /\ LET sp == getSpans(yScan, AET)
         bad == FirstBadPair(sp)
         drawn == drawnPoints(sp, yScan, IF bad = 0 THEN NPairs(sp) ELSE bad - 1)
     IN /\ spans' = sp
        /\ img' = paint(img, imageBitmap.width, drawn)
        /\ writes' = writes \o [i \in 1..Len(drawn) |-> <<drawn[i].x, drawn[i].y>>]
        /\ IF bad # 0
             THEN /\ IF HasPoint2(sp, bad)
                       THEN pc' = "hang" /\ UNCHANGED ret
                       ELSE pc' = "error" /\ ret' = TypeError
                  /\ UNCHANGED yScan
             ELSE /\ yScan' = yScan + YDen
                  /\ IF loopContinues(ET, AET)
                       THEN pc' = "move" /\ UNCHANGED ret
                       ELSE pc' = "done" /\ ret' = Undefined
  /\ UNCHANGED <<points, imageBitmap, mode, ET, AET, gatheredSpans, iter, results>>

\* the call is over: the caller has its value or its exception
Returned ==
  /\ pc \in {"done", "error"}
  /\ results' = Append(results, ret)
  /\ pc' = "idle"
  /\ UNCHANGED <<points, imageBitmap, mode, ET, AET, yScan, spans, gatheredSpans,
                 img, writes, ret, iter>>

Next ==
  \/ slpfPoints
  \/ slpfFilledArray
  \/ MoveEdges
  \/ RemoveEdges
  \/ SortAET
  \/ GatherSpans
  \/ DrawSpans
  \/ Returned

Spec == Init /\ [][Next]_vars

\* ------------------------------------------------------------- geometry
IntegerVertices(pts) == \A i \in 1..Len(pts) : pts[i].y % YDen = 0

Cross(a, b, c) == (b.x - a.x) * (c.y - a.y) - (b.y - a.y) * (c.x - a.x)

Between(u, v, w) == (u <= w /\ w <= v) \/ (v <= w /\ w <= u)

\* c lies on the closed segment from a to b
OnSegment(a, b, c) ==
  Cross(a, b, c) = 0 /\ Between(a.x, b.x, c.x) /\ Between(a.y, b.y, c.y)

SegmentsMeet(a, b, c, d) ==
  \/ /\ Cross(c, d, a) * Cross(c, d, b) < 0
     /\ Cross(a, b, c) * Cross(a, b, d) < 0
  \/ OnSegment(c, d, a) \/ OnSegment(c, d, b)
  \/ OnSegment(a, b, c) \/ OnSegment(a, b, d)

Succ(pts, i) == IF i = Len(pts) THEN 1 ELSE i + 1

\* a closed loop of distinct vertices whose sides meet only where two
\* consecutive sides share their vertex
IsSimple(pts) ==
  /\ Len(pts) >= 3
  /\ \A i, j \in 1..Len(pts) : i < j => pts[i] # pts[j]
  /\ \A i, j \in 1..Len(pts) :
       i < j =>
         LET a == pts[i]
             b == pts[Succ(pts, i)]
             c == pts[j]
             d == pts[Succ(pts, j)]
         IN IF j = i + 1
              THEN ~OnSegment(a, b, d) /\ ~OnSegment(c, d, a)
              ELSE IF Succ(pts, j) = i
                THEN ~OnSegment(a, b, c) /\ ~OnSegment(c, d, b)
                ELSE ~SegmentsMeet(a, b, c, d)

Range(sq) == {sq[i] : i \in 1..Len(sq)}

MinOf(S) == CHOOSE v \in S : \A w \in S : v <= w
MaxOf(S) == CHOOSE v \in S : \A w \in S : w <= v
Xs(pts) == {pts[i].x : i \in 1..Len(pts)}
Ys(pts) == {pts[i].y : i \in 1..Len(pts)}

\* ------------------------------------------------------------- claims

\* C1: slpfPoints on an axis-aligned rectangle with integer corners (the
\* square (0,0),(4,0),(4,4),(0,4) among them) returns exactly the integer
\* points of the half-open rectangle [xmin,xmax) x [ymin,ymax), each once.
C1_RectangleFill ==
  (pc = "done" /\ mode = "points" /\ points \in Rectangles) =>
    LET inside == {Point(x, y) : x \in MinOf(Xs(points))..(MaxOf(Xs(points)) - 1),
                                 y \in {v \in MinOf(Ys(points))..(MaxOf(Ys(points)) - 1) :
                                          v % YDen = 0}}
    IN /\ ret.type = "array"
       /\ Range(ret.value) = inside
       /\ Len(ret.value) = Cardinality(inside)

\* C2: for a simple polygon with integer vertices, getSpans returns an even
\* number of intersection points on every scanline the loop visits.
C2_EvenIntersections ==
  (IsSimple(points) /\ IntegerVertices(points)) => Len(spans) % 2 = 0

\* C3: a scanline with an odd number of intersection points does not make
\* the fill fail: no TypeError from pairing a point with a missing partner.
C3_OddScanlineDoesNotFail ==
  Len(spans) % 2 = 1 => pc # "error"

\* C4: the number of scanline iterations of a call is bounded by a cap (here
\* the number of unit scanlines the polygon's y-extent holds), also when the
\* vertices do not all lie on the unit grid of the starting scanline.
C4_IterationCap ==
  Len(points) >= MinPoints =>
    iter <= (MaxOf(Ys(points)) - MinOf(Ys(points)) + YDen - 1) \div YDen + 1

\* C5: with fewer than 3 points slpfPoints returns the empty array and
\* slpfFilledArray writes no pixel; no Edge Table is built, nothing is thrown.
C5_TooFewPoints ==
  Len(points) < MinPoints =>
    LET expected == IF mode = "points" THEN ArrayOf(<<>>) ELSE Undefined
    IN /\ pc \in {"idle", "done"}
       /\ pc = "done" => ret = expected
       /\ \A i \in 1..Len(results) : results[i] = expected
       /\ ET = <<>> /\ AET = <<>>
       /\ img = <<>> /\ writes = <<>>

C5_Witness ==
  /\ Len(points) = MinPoints - 1
  /\ pc = "done"
  /\ Len(results) = 1

\* C6: for a 10x10 buffer and the polygon covering the top-left 5x5 region,
\* slpfFilledArray delivers to its caller a buffer whose pixels inside the
\* region are (255,255,255,255) and whose other bytes have their initial value.
C6_BufferFilled ==
  (/\ pc = "done" /\ mode = "filled"
   /\ points = Rectangle(0, 0, 5, 5)
   /\ imageBitmap = Bitmap(BufSize, BufSize)) =>
    /\ ret = ArrayOf(img)
    /\ \A x \in 0..(BufSize - 1), y \in 0..(BufSize - 1), k \in 1..4 :
         img[(BufSize * y + x) * 4 + k] = IF x < 5 /\ y < 5 THEN 255 ELSE 0

\* C7: for a simple polygon with integer vertices the intersection x-values,
\* in sorted AET order, are non-decreasing on every scanline, and the points
\* returned are ordered by scanline and left to right within a scanline.
C7_LeftToRight ==
  (IsSimple(points) /\ IntegerVertices(points)) =>
    /\ \A i \in 1..(Len(spans) - 1) : spans[i].x <= spans[i + 1].x
    /\ (pc = "done" /\ mode = "points") =>
         \A i \in 1..(Len(ret.value) - 1) :
           \/ ret.value[i].y < ret.value[i + 1].y
           \/ /\ ret.value[i].y = ret.value[i + 1].y
              /\ ret.value[i].x < ret.value[i + 1].x

\* C8: every call on the same input gives the caller the same result, and no
\* step changes the caller's points array.
C8_Idempotent ==
  /\ [](\A i, j \in 1..Len(results) : results[i] = results[j])
  /\ [][points' = points]_vars

C8_Witness ==
  /\ Len(results) = 2
  /\ mode = "points"
  /\ results[1].type = "array"
  /\ results[1].value # <<>>

\* C9: for a polygon of 3 or more points, also one all of whose edges the
\* Edge Builder discards, the fill raises no error.
C9_NoError ==
  Len(points) >= MinPoints => pc # "error"

\* C10: for a triangle with integer vertices and a horizontal edge, every
\* point slpfPoints returns has ymin <= y < ymax and xmin <= x < xmax.
HasHorizontalEdge(pts) ==
  \E i \in 1..Len(pts) : pts[i].y = pts[Succ(pts, i)].y /\ pts[i] # pts[Succ(pts, i)]

C10_WithinExtent ==
  (/\ pc = "done" /\ mode = "points"
   /\ Len(points) = 3 /\ IntegerVertices(points) /\ HasHorizontalEdge(points)) =>
    \A i \in 1..Len(ret.value) :
      /\ MinOf(Ys(points)) <= ret.value[i].y
      /\ ret.value[i].y < MaxOf(Ys(points))
      /\ MinOf(Xs(points)) <= ret.value[i].x
      /\ ret.value[i].x < MaxOf(Xs(points))

C10_Witness ==
  /\ pc = "done" /\ mode = "points"
  /\ Len(points) = 3 /\ IntegerVertices(points) /\ HasHorizontalEdge(points)
  /\ IsSimple(points)
  /\ Len(ret.value) > 1

\* C11: for 3 or more points with integer y-coordinates and at least one
\* retained edge, the scanline loop ends normally, after at most
\* ymax - ymin + 1 iterations, with the Edge Table and the AET both empty.
C11_TerminatesEmpty ==
  (/\ Len(points) >= MinPoints
   /\ IntegerVertices(points)
   /\ pointsToEdges(points) # <<>>) =>
    /\ pc \notin {"error", "hang"}
    /\ iter <= (MaxOf(Ys(points)) - MinOf(Ys(points))) \div YDen + 1
    /\ pc = "done" => ET = <<>> /\ AET = <<>>

\* the edges the Edge Builder made for the call's polygon
BuiltEdges == IF Len(points) >= MinPoints THEN Range(pointsToEdges(points)) ELSE {}

InLoop == pc \in {"move", "remove", "sort", "fill"}

\* C12: every edge of the Edge Builder is in exactly one of ET, AET and
\* discarded (in neither); the AET never holds an edge twice; and a step of
\* the scanline loop moves an edge only from the ET to the AET or out of the
\* AET, never back.
C12_EdgePartition ==
  /\ [](LET all == ET \o AET
        IN /\ Range(all) \subseteq BuiltEdges
           /\ \A i, j \in 1..Len(all) : i < j => all[i] # all[j])
  /\ [][InLoop =>
          /\ Range(ET') \subseteq Range(ET)
          /\ Range(AET') \subseteq Range(AET) \cup (Range(ET) \ Range(ET'))]_vars

C12_Witness ==
  /\ pc = "fill"
  /\ Len(AET) > 0
  /\ \E e \in BuiltEdges :
       e \notin Range(ET) \cup Range(AET) /\ getYMin(e) < getYMax(e)

\* ------------------------------------------------------------- removeEdges alone
\* edges told apart by their x, with every maximum y of the grid
ProbeEdges == {Edge(Point(0, 0), Point(x, y * YDen)) : x \in 1..2, y \in 0..MaxY}

ProbeAETs == UNION {[1..n -> ProbeEdges] : n \in 0..MaxAET}

\* a caller of removeEdges with an AET of its own; results keeps the AET as it
\* was before the call
InitRemove ==
  /\ points = <<>> /\ imageBitmap = Bitmap(0, 0) /\ mode = "points"
  /\ pc = "remove"
  /\ ET = <<>>
  /\ AET \in ProbeAETs
  /\ yScan \in {y * YDen : y \in 0..MaxY}
  /\ spans = <<>> /\ gatheredSpans = <<>> /\ img = <<>> /\ writes = <<>>
  /\ ret = Undefined /\ iter = 0 /\ results = <<>>

RemoveEdgesAlone ==
  /\ pc = "remove" /\ results = <<>>
  /\ AET' = removeEdges(yScan, AET)
  /\ results' = <<AET>>
  /\ pc' = "sort"
  /\ UNCHANGED <<points, imageBitmap, mode, ET, yScan, spans, gatheredSpans, img,
                 writes, ret, iter>>

NextRemove == RemoveEdgesAlone

SpecRemove == InitRemove /\ [][NextRemove]_vars

Count(e, sq) == Cardinality({i \in 1..Len(sq) : sq[i] = e})

\* C13: removeEdges(yScan, AET) leaves, as a multiset, exactly the edges of
\* the AET whose maximum y is greater than yScan.
C13_RemoveIsFilter ==
  pc = "sort" =>
    LET before == results[1]
    IN /\ Range(AET) \subseteq Range(before)
       /\ \A e \in Range(before) :
            Count(e, AET) = IF getYMax(e) > yScan THEN Count(e, before) ELSE 0

\* two expired edges in a row, an expired last edge, and an edge that stays
C13_Witness ==
  /\ pc = "sort"
  /\ LET before == results[1]
         n == Len(before)
     IN /\ n >= 4
        /\ yScan >= getYMax(before[n])
        /\ \E i \in 1..(n - 2) :
             yScan >= getYMax(before[i]) /\ yScan >= getYMax(before[i + 1])
  /\ AET # <<>>

\* C14: on each scanline, once moveEdges has run, no edge whose minimum y is
\* at or below the scanline is left in the Edge Table.
C14_ActivatedOnTime ==
  pc \in {"remove", "sort", "fill"} =>
    \A i \in 1..Len(ET) : getYMin(ET[i]) > yScan

IsPrefix(s, t) == Len(s) <= Len(t) /\ s = SubSeq(t, 1, Len(s))

\* C15: the Edge Table is sorted by descending minimum y at all times, and
\* once a call has built it, a step changes it only by removing elements
\* from its tail.
C15_SortedPopOnly ==
  /\ [](\A i \in 1..(Len(ET) - 1) : getYMin(ET[i]) >= getYMin(ET[i + 1]))
  /\ [][pc # "idle" => IsPrefix(ET', ET)]_vars

C15_Witness ==
  /\ pc = "remove"
  /\ Len(AET) > 0
  /\ Len(ET) > 0
  /\ getYMin(ET[Len(ET)]) > yScan

Pred(pts, i) == IF i = 1 THEN Len(pts) ELSE i - 1

\* the consecutive pairs of the loop, the pair last -> first included, in walk
\* order, without those whose endpoints have the same x
KeptPairs(pts) ==
  SelectSeq([i \in 1..Len(pts) |-> Edge(pts[Pred(pts, i)], pts[i])],
            LAMBDA e : e.point1.x # e.point2.x)

LerpGrid == 0..(2 * YDen)

LerpPoints == {Point(x, y) : x \in LerpGrid, y \in LerpGrid}

\* a caller of lerp with an edge and a scanline of its own
InitLerp ==
  /\ points = <<>> /\ imageBitmap = Bitmap(0, 0) /\ mode = "points"
  /\ pc = "lerp"
  /\ ET = <<>>
  /\ \E p1 \in LerpPoints, p2 \in LerpPoints : AET = <<Edge(p1, p2)>>
  /\ yScan \in LerpGrid
  /\ spans = <<>> /\ gatheredSpans = <<>> /\ img = <<>> /\ writes = <<>>
  /\ ret = Undefined /\ iter = 0 /\ results = <<>>

LerpAlone ==
  /\ pc = "lerp"
  /\ spans' = <<Point(lerpOver(YDen, yScan, AET[1]), yScan)>>
  /\ pc' = "lerped"
  /\ UNCHANGED <<points, imageBitmap, mode, ET, AET, yScan, gatheredSpans, img,
                 writes, ret, iter, results>>

NextLerp == LerpAlone

SpecLerp == InitLerp /\ [][NextLerp]_vars

LerpBetween(y, edge) ==
  Between(edge.point1.y, edge.point2.y, y) /\ edge.point1.y # edge.point2.y

Smaller(a, b) == IF a <= b THEN a ELSE b
Larger(a, b) == IF a <= b THEN b ELSE a

\* C17 as stated: for an edge with different endpoint y-values, lerp at an
\* endpoint's y returns that endpoint's x, and at a y between the endpoint
\* y-values a value between the two endpoint x-values.
C17_EndpointExact ==
  (pc = "lerped" /\ LerpBetween(yScan, AET[1])) =>
    LET e == AET[1]
        x == spans[1].x * YDen
    IN /\ yScan = e.point1.y => x = e.point1.x
       /\ yScan = e.point2.y => x = e.point2.x
       /\ Smaller(e.point1.x, e.point2.x) <= x
       /\ x <= Larger(e.point1.x, e.point2.x)

\* C17 amended: lerp returns the floor of the interpolated x; at an
\* endpoint's y that is the floor of the endpoint's x (the endpoint's x when
\* it is an integer), and between the endpoint y-values the value lies
\* between the floor of the smaller endpoint x and the larger endpoint x.
C17_EndpointFloor ==
  (pc = "lerped" /\ LerpBetween(yScan, AET[1])) =>
    LET e == AET[1]
        x == spans[1].x
    IN /\ yScan = e.point1.y => x = FloorDiv(e.point1.x, YDen)
       /\ yScan = e.point2.y => x = FloorDiv(e.point2.x, YDen)
       /\ FloorDiv(Smaller(e.point1.x, e.point2.x), YDen) <= x
       /\ x * YDen <= Larger(e.point1.x, e.point2.x)
       /\ (e.point1.x % YDen = 0 /\ yScan = e.point1.y) => x * YDen = e.point1.x
       /\ (e.point2.x % YDen = 0 /\ yScan = e.point2.y) => x * YDen = e.point2.x

\* lerp called at the y of an endpoint whose x is not an integer
C17_Witness ==
  /\ pc = "lerped"
  /\ LerpBetween(yScan, AET[1])
  /\ yScan = AET[1].point1.y
  /\ AET[1].point1.x % YDen # 0
  /\ AET[1].point1.x # AET[1].point2.x
  /\ spans[1].x = FloorDiv(AET[1].point1.x, YDen)

\* C18: when getSpans runs on scanline y, every edge of the AET has
\* yMin <= y < yMax, so no horizontal edge reaches lerp and every
\* intersection is a finite number (no division by zero).
C18_ActiveRange ==
  /\ pc = "fill" =>
       \A i \in 1..Len(AET) :
         getYMin(AET[i]) <= yScan /\ yScan < getYMax(AET[i])
  /\ \A i \in 1..Len(spans) : IsFinite(spans[i].x)

\* getSpans is about to run with an edge in the AET, on the scanline on which a
\* horizontal edge was activated and removed
C18_Witness ==
  /\ pc = "fill"
  /\ Len(AET) > 0
  /\ \E e \in BuiltEdges :
       /\ e.point1.y = e.point2.y
       /\ e.point1.y = yScan
       /\ e \notin Range(AET) \cup Range(ET)

\* ------------------------------------------------------------- slpfPoints as a function
Returns(v) == [ok |-> TRUE, value |-> v]
Fails == [ok |-> FALSE, value |-> <<>>]

\* the loop of slpfPoints, lines 158-174, from one scanline on; fuel is the
\* number of iterations followed
RECURSIVE scanPoints(_, _, _, _, _)
scanPoints(et, aet, y, gathered, fuel) ==
  IF ~loopContinues(et, aet) THEN Returns(gathered)
  ELSE IF fuel = 0 THEN Fails
  ELSE LET moved == moveEdges(y, et, aet)
           active == sortAET(removeEdges(y, moved.AET))
           sp == getSpans(y, active)
       IN IF FirstBadPair(sp) # 0 THEN Fails
          ELSE scanPoints(moved.ET, active, y + YDen,
                          gathered \o gatherSpans(sp, y), fuel - 1)

\* what slpfPoints(pts) returns, or that it does not return
slpfPointsValue(pts) ==
  IF tooFewPoints(pts) THEN Returns(<<>>)
  ELSE LET et == sortET(pointsToEdges(pts))
       IN IF et = <<>> THEN Fails
          ELSE scanPoints(et, newAET, getYMin(et[Len(et)]), <<>>, MaxIter)

\* C19: for the same polygon the (x, y) of the setPixelAt calls of
\* slpfFilledArray, in order, are the points slpfPoints returns, in order.
\* (Both exports are compared with slpfPoints as a function of the polygon.)
C19_SameEmission ==
  /\ pc = "done" =>
       LET r == slpfPointsValue(points)
       IN /\ r.ok
          /\ mode = "points" => ret.value = r.value
          /\ mode = "filled" =>
               writes = [i \in 1..Len(r.value) |-> <<r.value[i].x, r.value[i].y>>]
  \* and either export throws exactly where the other does
  /\ pc = "error" => ~slpfPointsValue(points).ok

C19_Witness ==
  /\ pc = "done"
  /\ mode = "filled"
  /\ Len(writes) > 1
  /\ Len(results) = 1

=============================================================================
